---- MODULE Spec2Model ----
(***************************************************************************)
(* Model of etl_exchange_rates.py: the two CSV extractors, the mean        *)
(* aggregator, the HTML table builder, the report writer and main().       *)
(*                                                                         *)
(* A DataFrame is a record [columns, rows]; a cell is a tagged Python      *)
(* value (null, str or float); a float is an exact fraction or NaN.        *)
(***************************************************************************)
EXTENDS Integers, Sequences, FiniteSets, TLC

\* ------------------------------------------------------------------ bounds
\* Most data rows a CSV table holds.
MaxRows == 2
\* Most currency cells (rows times currency columns) a CSV table holds.
MaxCells == 4
\* Most records of a DataFrame handed directly to calculate_mean_rates.
MaxObs == 3

\* ------------------------------------------------------- program constants
TARGET_CURRENCIES == <<"USD", "SEK", "GBP", "JPY">>

TargetSet == {TARGET_CURRENCIES[i] : i \in 1..Len(TARGET_CURRENCIES)}

\* ------------------------------------------------------------ Python values
\* A Python float: an exact fraction num/den (den > 0, lowest terms) or NaN.
NaN == [nan |-> TRUE, num |-> 0, den |-> 1]

Num(n) == [nan |-> FALSE, num |-> n, den |-> 1]

\* A cell of a DataFrame read by pd.read_csv: null (NaN/None), a str, a float.
Null == [tag |-> "null", str |-> "", val |-> NaN]

Str(s) == [tag |-> "str", str |-> s, val |-> NaN]

Flt(n) == [tag |-> "float", str |-> "", val |-> Num(n)]

\* pd.isna(rate_value)
pd_isna(v) == v.tag = "null"

\* Python's float() of a str: the texts of the model and what float() makes
\* of them ("NAN" is no default NA marker of read_csv, yet float() reads it as
\* NaN; "2" is a number kept as text in a column of mixed content).
FloatOfStr(s) ==
    CASE s = "2" -> [raises |-> "None", val |-> Num(2)]
      [] s = "NAN" -> [raises |-> "None", val |-> NaN]
      [] OTHER -> [raises |-> "ValueError", val |-> NaN]

\* float(rate_value) for a cell that passed the null test
float(v) ==
    CASE v.tag = "float" -> [raises |-> "None", val |-> v.val]
      [] v.tag = "str" -> FloatOfStr(v.str)
      [] OTHER -> [raises |-> "None", val |-> NaN]

\* rate_float <= 0 (every comparison with NaN is False)
LeqZero(x) == ~x.nan /\ x.num <= 0

\* str(date_value)
str(v) ==
    CASE v.tag = "str" -> v.str
      [] v.tag = "float" -> "float"
      [] OTHER -> "nan"

\* -------------------------------------------------------------- exceptions
NoException == [type |-> "None", msg |-> ""]

Raise(t, m) == [type |-> t, msg |-> m]

EmptyDict == <<>>

\* ------------------------------------------------------------- input files
\* The cells a currency column may hold.
RateCells ==
    {Null, Str(""), Str("N/A"), Str("abc"), Str("NAN"), Str("2"),
     Flt(-1), Flt(0), Flt(1)}

\* The cells a Date column may hold.
DateCells == {Str("2024-01-01"), Str("2024-01-02")}

\* The Date cells of a table of n rows: dates in file order, repeats allowed.
DateColumns(n) ==
    {d \in [1..n -> DateCells] :
        \A i \in 1..n : \A j \in 1..n :
            (i < j /\ d[i] = Str("2024-01-02")) => d[j] = Str("2024-01-02")}

\* A file that does not exist.
MissingFile == [exists |-> FALSE, read_csv |-> "ok", columns |-> {}, rows |-> <<>>]

\* A file pd.read_csv refuses with the named pandas error.
BadFile(e) == [exists |-> TRUE, read_csv |-> e, columns |-> {}, rows |-> <<>>]

\* The row counts a table with the currency columns h may have.
RowCounts(h) ==
    {n \in 0..MaxRows : n * Cardinality(h) <= MaxCells}

\* The parsable CSV file with the currency columns h, with or without a Date
\* column, holding n rows of the given currency cells and Date cells.
Table(h, hasDate, n, cells, d) ==
    LET cols == IF hasDate THEN h \cup {"Date"} ELSE h
    IN  [exists |-> TRUE, read_csv |-> "ok", columns |-> cols,
         rows |-> [i \in 1..n |->
                     [c \in cols |-> IF c = "Date" THEN d[i] ELSE cells[i][c]]]]

\* ---------------------------------------------------------------- state
VARIABLES
    fn,             \* the function called: one of the five functions, or "main"
    pc,             \* "call" / "return" of fn; inside main, the step about to run
    daily_csv,      \* the daily rates file
    historical_csv, \* the historical rates file
    disk,           \* what writing the report file will meet
    daily_rates,    \* Dict[str, float] of parse_daily_rates
    historical_df,  \* DataFrame of parse_historical_rates
    mean_rates,     \* Dict[str, float] of calculate_mean_rates
    html_content,   \* table_data of create_html_table
    output_html,    \* the report file: "absent", "partial" or "written"
    raised,         \* the exception the last call raised, or NoException
    calls,          \* the calls main has made so far, in order
    exit_code       \* what main returned, -1 before it returns

vars ==
    <<fn, pc, daily_csv, historical_csv, disk, daily_rates, historical_df,
      mean_rates, html_content, output_html, raised, calls, exit_code>>

EmptyFrame == [columns |-> {}, rows |-> <<>>]

\* -------------------------------------------------------- parse_daily_rates
\* parse_daily_rates' loop with the historical policy: a rate <= 0 is skipped.
RECURSIVE DailyLoop_SkipNonPositive(_, _, _)
DailyLoop_SkipNonPositive(df, i, rates) ==
    IF i > Len(TARGET_CURRENCIES) THEN rates
    ELSE
        LET currency == TARGET_CURRENCIES[i]
        IN  IF currency \notin df.columns
            THEN DailyLoop_SkipNonPositive(df, i + 1, rates)
            ELSE
                LET rate_value == df.rows[1][currency]
                    f == float(rate_value)
                IN  IF pd_isna(rate_value) \/ f.raises # "None" \/ LeqZero(f.val)
                    THEN DailyLoop_SkipNonPositive(df, i + 1, rates)
                    ELSE DailyLoop_SkipNonPositive(df, i + 1,
                                                   (currency :> f.val) @@ rates)

\* The for loop over TARGET_CURRENCIES[i..], lines 54-74.
RECURSIVE DailyLoop(_, _, _)
DailyLoop(df, i, rates) ==
    IF i > Len(TARGET_CURRENCIES) THEN rates
    ELSE
        LET currency == TARGET_CURRENCIES[i]
        IN  IF currency \notin df.columns
            THEN DailyLoop(df, i + 1, rates)
            ELSE
                LET rate_value == df.rows[1][currency]
                IN  IF pd_isna(rate_value) \/ rate_value = Str("")
                       \/ rate_value = Str("N/A")
                    THEN DailyLoop(df, i + 1, rates)
                    ELSE
                        LET f == float(rate_value)
                        IN  IF f.raises # "None"
                            THEN DailyLoop(df, i + 1, rates)
                            ELSE DailyLoop(df, i + 1, (currency :> f.val) @@ rates)

\* parse_daily_rates that fails as soon as one target column is missing.
parse_daily_rates_AllRequired(csv_file) ==
    IF ~csv_file.exists
    THEN [raised |-> Raise("FileNotFoundError", "Daily rates file not found"),
          value |-> EmptyDict]
    ELSE IF csv_file.read_csv # "ok"
    THEN [raised |-> Raise("ValueError", "CSV file is empty or malformed"),
          value |-> EmptyDict]
    ELSE IF Len(csv_file.rows) = 0
    THEN [raised |-> Raise("ValueError", "CSV file is empty - no data rows found"),
          value |-> EmptyDict]
    ELSE
        LET rates == DailyLoop(csv_file, 1, EmptyDict)
        IN  IF DOMAIN rates = {} \/ ~(TargetSet \subseteq csv_file.columns)
            THEN [raised |-> Raise("ValueError",
                                   "No valid rates found for any target currencies"),
                  value |-> EmptyDict]
            ELSE [raised |-> NoException, value |-> rates]

parse_daily_rates(csv_file) ==
    IF ~csv_file.exists
    THEN [raised |-> Raise("FileNotFoundError", "Daily rates file not found"),
          value |-> EmptyDict]
    ELSE IF csv_file.read_csv = "EmptyDataError"
    THEN [raised |-> Raise("ValueError", "CSV file is empty or malformed"),
          value |-> EmptyDict]
    ELSE IF csv_file.read_csv = "ParserError"
    THEN [raised |-> Raise("ValueError", "Failed to parse CSV file"),
          value |-> EmptyDict]
    ELSE IF Len(csv_file.rows) = 0
    THEN [raised |-> Raise("ValueError", "CSV file is empty - no data rows found"),
          value |-> EmptyDict]
    ELSE
        LET rates == DailyLoop(csv_file, 1, EmptyDict)
        IN  IF DOMAIN rates = {}
            THEN [raised |-> Raise("ValueError",
                                   "No valid rates found for any target currencies"),
                  value |-> EmptyDict]
            ELSE [raised |-> NoException, value |-> rates]

\* --------------------------------------------------- parse_historical_rates
\* The inner loop over df.iterrows() from row idx on, lines 162-184.
RECURSIVE HistRows(_, _, _, _)
HistRows(df, currency, idx, data) ==
    IF idx > Len(df.rows) THEN data
    ELSE
        LET row == df.rows[idx]
            rate_value == row[currency]
        IN  IF pd_isna(rate_value) \/ rate_value = Str("")
               \/ rate_value = Str("N/A")
            THEN HistRows(df, currency, idx + 1, data)
            ELSE
                LET f == float(rate_value)
                IN  IF f.raises # "None"
                    THEN HistRows(df, currency, idx + 1, data)
                    ELSE IF LeqZero(f.val)
                    THEN HistRows(df, currency, idx + 1, data)
                    ELSE HistRows(df, currency, idx + 1,
                                  Append(data, [date |-> str(row["Date"]),
                                                currency |-> currency,
                                                rate |-> f.val]))

\* The outer loop over TARGET_CURRENCIES[i..], lines 152-186.
RECURSIVE HistLoop(_, _, _)
HistLoop(df, i, data) ==
    IF i > Len(TARGET_CURRENCIES) THEN data
    ELSE
        LET currency == TARGET_CURRENCIES[i]
        IN  IF currency \notin df.columns
            THEN HistLoop(df, i + 1, data)
            ELSE HistLoop(df, i + 1, HistRows(df, currency, 1, data))

\* parse_historical_rates that looks for the Date column only once a currency
\* column is found.
parse_historical_rates_LateDateCheck(csv_file) ==
    IF ~csv_file.exists
    THEN [raised |-> Raise("FileNotFoundError", "Historical rates file not found"),
          value |-> EmptyFrame]
    ELSE IF csv_file.read_csv # "ok"
    THEN [raised |-> Raise("ValueError", "CSV file is empty or malformed"),
          value |-> EmptyFrame]
    ELSE IF Len(csv_file.rows) = 0
    THEN [raised |-> Raise("ValueError", "CSV file is empty - no data rows found"),
          value |-> EmptyFrame]
    ELSE IF csv_file.columns \cap TargetSet = {}
    THEN [raised |-> Raise("ValueError",
                  "No valid historical rates found for any target currencies"),
          value |-> EmptyFrame]
    ELSE IF "Date" \notin csv_file.columns
    THEN [raised |-> Raise("ValueError", "CSV file missing required 'Date' column"),
          value |-> EmptyFrame]
    ELSE
        LET historical_data == HistLoop(csv_file, 1, <<>>)
        IN  IF historical_data = <<>>
            THEN [raised |-> Raise("ValueError",
                          "No valid historical rates found for any target currencies"),
                  value |-> EmptyFrame]
            ELSE [raised |-> NoException,
                  value |-> [columns |-> {"date", "currency", "rate"},
                             rows |-> historical_data]]

parse_historical_rates(csv_file) ==
    IF ~csv_file.exists
    THEN [raised |-> Raise("FileNotFoundError", "Historical rates file not found"),
          value |-> EmptyFrame]
    ELSE IF csv_file.read_csv = "EmptyDataError"
    THEN [raised |-> Raise("ValueError", "CSV file is empty or malformed"),
          value |-> EmptyFrame]
    ELSE IF csv_file.read_csv = "ParserError"
    THEN [raised |-> Raise("ValueError", "Failed to parse CSV file"),
          value |-> EmptyFrame]
    ELSE IF Len(csv_file.rows) = 0
    THEN [raised |-> Raise("ValueError", "CSV file is empty - no data rows found"),
          value |-> EmptyFrame]
    ELSE IF "Date" \notin csv_file.columns
    THEN [raised |-> Raise("ValueError", "CSV file missing required 'Date' column"),
          value |-> EmptyFrame]
    ELSE
        LET historical_data == HistLoop(csv_file, 1, <<>>)
        IN  IF historical_data = <<>>
            THEN [raised |-> Raise("ValueError",
                          "No valid historical rates found for any target currencies"),
                  value |-> EmptyFrame]
            ELSE [raised |-> NoException,
                  value |-> [columns |-> {"date", "currency", "rate"},
                             rows |-> historical_data]]

\* ------------------------------------------------- the extractors, called
\* The files pd.read_csv cannot turn into a table.
UnreadableFiles ==
    {MissingFile, BadFile("EmptyDataError"), BadFile("ParserError")}

\* csv_file is one of the files an extractor may be given.
IsExtractorFile(csv_file) ==
    \/ csv_file \in UnreadableFiles
    \/ \E h \in SUBSET TargetSet, hasDate \in BOOLEAN :
         \E n \in RowCounts(h) :
           \E cells \in [1..n -> [h -> RateCells]] :
             \E d \in (IF hasDate THEN DateColumns(n) ELSE {[i \in 1..n |-> Null]}) :
               csv_file = Table(h, hasDate, n, cells, d)

Init ==
    /\ fn \in {"parse_daily_rates", "parse_historical_rates"}
    /\ pc = "call"
    /\ \/ fn = "parse_daily_rates" /\ IsExtractorFile(daily_csv)
          /\ historical_csv = MissingFile
       \/ fn = "parse_historical_rates" /\ IsExtractorFile(historical_csv)
          /\ daily_csv = MissingFile
    /\ disk = "ok"
    /\ daily_rates = EmptyDict
    /\ historical_df = EmptyFrame
    /\ mean_rates = EmptyDict
    /\ html_content = <<>>
    /\ output_html = "absent"
    /\ raised = NoException
    /\ calls = <<>>
    /\ exit_code = -1

CallParseDaily ==
    /\ fn = "parse_daily_rates" /\ pc = "call"
    /\ LET r == parse_daily_rates(daily_csv)
       IN  /\ daily_rates' = r.value
           /\ raised' = r.raised
    /\ pc' = "return"
    /\ UNCHANGED <<fn, daily_csv, historical_csv, disk, historical_df, mean_rates,
                   html_content, output_html, calls, exit_code>>

CallParseHistorical ==
    /\ fn = "parse_historical_rates" /\ pc = "call"
    /\ LET r == parse_historical_rates(historical_csv)
       IN  /\ historical_df' = r.value
           /\ raised' = r.raised
    /\ pc' = "return"
    /\ UNCHANGED <<fn, daily_csv, historical_csv, disk, daily_rates, mean_rates,
                   html_content, output_html, calls, exit_code>>

Next == CallParseDaily \/ CallParseHistorical

Spec == Init /\ [][Next]_vars

\* ======================================================================
\* Properties of the extractors (specification Spec)
\* ======================================================================

\* The error kind of the design's taxonomy that an exception stands for.
ErrorKind(e) ==
    CASE e.type = "None" -> "none"
      [] e.type = "FileNotFoundError" -> "NotFound"
      [] e.type = "ValueError"
         /\ e.msg \in {"CSV file is empty - no data rows found",
                       "CSV file is empty or malformed",
                       "Failed to parse CSV file",
                       "CSV file missing required 'Date' column"} -> "MalformedInput"
      [] e.type = "ValueError"
         /\ e.msg \in {"No valid rates found for any target currencies",
                       "No valid historical rates found for any target currencies"}
           -> "NoUsableData"
      [] e.type = "ValueError"
         /\ e.msg \in {"Cannot calculate means: DataFrame is empty",
                       "DataFrame missing required columns: 'currency' and/or 'rate'"}
           -> "InvalidInput"
      [] OTHER -> "Other"

\* The cell is null, blank or the 'N/A' marker.
NullOrBlank(v) == v \in {Null, Str(""), Str("N/A")}

\* The cell is present and not blank, but its numeric parse fails.
ParseFails(v) == ~NullOrBlank(v) /\ float(v).raises # "None"

\* The cell parses to a number greater than 0.
ParsesPositive(v) ==
    /\ ~NullOrBlank(v) /\ ~ParseFails(v)
    /\ ~float(v).val.nan /\ float(v).val.num > 0

\* The first-row cell of column c of file f is one parse_daily_rates keeps.
DailyUsable(f, c) ==
    /\ c \in f.columns
    /\ ~NullOrBlank(f.rows[1][c])
    /\ ~ParseFails(f.rows[1][c])

DailyReturned == fn = "parse_daily_rates" /\ pc = "return"

HistoricalReturned == fn = "parse_historical_rates" /\ pc = "return"

IsTable(f) == f.exists /\ f.read_csv = "ok"

\* The table cut down to its first row.
FirstRowOnly(f) == [f EXCEPT !.rows = SubSeq(f.rows, 1, 1)]

\* C1 (as stated): every stored daily rate is a number other than zero and
\* every rate of a historical observation is a number greater than zero;
\* none is NaN.
C1_StoredRatesValid ==
    pc = "return" =>
        /\ \A c \in DOMAIN daily_rates :
              ~daily_rates[c].nan /\ daily_rates[c].num # 0
        /\ \A i \in 1..Len(historical_df.rows) :
              /\ ~historical_df.rows[i].rate.nan
              /\ historical_df.rows[i].rate.num > 0

ExpectedOf(f, c) ==
    IF c \notin f.columns THEN <<>>
    ELSE
        LET idx == SelectSeq([i \in 1..Len(f.rows) |-> i],
                             LAMBDA i : ParsesPositive(f.rows[i][c]))
        IN  [k \in 1..Len(idx) |->
                [date |-> str(f.rows[idx[k]]["Date"]),
                 currency |-> c,
                 rate |-> float(f.rows[idx[k]][c]).val]]

\* The expected observations of the currencies from position i on, the
\* currency loop outermost.
RECURSIVE ExpectedFrom(_, _)
ExpectedFrom(f, i) ==
    IF i > Len(TARGET_CURRENCIES) THEN <<>>
    ELSE ExpectedOf(f, TARGET_CURRENCIES[i]) \o ExpectedFrom(f, i + 1)

\* C3 (as stated): parse_historical_rates returns exactly the observations of
\* the (currency, row) pairs whose cell parses to a number greater than 0,
\* currency by currency in configured order and in row order within one
\* currency, repeated dates kept.
C3_ObservationsExact ==
    (HistoricalReturned /\ raised = NoException) =>
        historical_df.rows = ExpectedFrom(historical_csv, 1)

\* C5: on a parsable table parse_daily_rates fails with MalformedInput when
\* there is no data row, with NoUsableData when no target currency has a
\* usable first-row cell, and succeeds otherwise.
C5_DailyOutcome ==
    (DailyReturned /\ IsTable(daily_csv)) =>
        IF Len(daily_csv.rows) = 0
        THEN ErrorKind(raised) = "MalformedInput" /\ daily_rates = EmptyDict
        ELSE IF \A c \in TargetSet : ~DailyUsable(daily_csv, c)
        THEN ErrorKind(raised) = "NoUsableData" /\ daily_rates = EmptyDict
        ELSE raised = NoException /\ DOMAIN daily_rates # {}

\* C5's case: a data row, a target column missing, another with a valid cell:
\* the call succeeds with a partial map.
C5_Witness ==
    /\ DailyReturned /\ IsTable(daily_csv)
    /\ Len(daily_csv.rows) > 0
    /\ TargetSet \ daily_csv.columns # {}
    /\ raised = NoException
    /\ DOMAIN daily_rates # {}
    /\ DOMAIN daily_rates # TargetSet

\* No (currency, row) pair of the table yields an observation.
NoObservation(f) ==
    \A c \in f.columns \cap TargetSet : \A i \in 1..Len(f.rows) :
        \/ NullOrBlank(f.rows[i][c])
        \/ ParseFails(f.rows[i][c])
        \/ LeqZero(float(f.rows[i][c]).val)

\* C6 (as stated): without a Date column parse_historical_rates fails with
\* MalformedInput and returns nothing; with a Date column and no observation
\* produced it fails with NoUsableData.
C6_Original ==
    (HistoricalReturned /\ IsTable(historical_csv)) =>
        /\ "Date" \notin historical_csv.columns =>
              ErrorKind(raised) = "MalformedInput" /\ historical_df = EmptyFrame
        /\ ("Date" \in historical_csv.columns /\ NoObservation(historical_csv)) =>
              ErrorKind(raised) = "NoUsableData"

\* C6 (amended): without a Date column parse_historical_rates fails with
\* MalformedInput and returns nothing, whatever the currency columns hold;
\* with at least one data row, a Date column and no observation produced it
\* fails with NoUsableData.
C6_DateRequired ==
    (HistoricalReturned /\ IsTable(historical_csv)) =>
        /\ "Date" \notin historical_csv.columns =>
              ErrorKind(raised) = "MalformedInput" /\ historical_df = EmptyFrame
        /\ (/\ Len(historical_csv.rows) > 0
            /\ "Date" \in historical_csv.columns
            /\ NoObservation(historical_csv)) =>
              ErrorKind(raised) = "NoUsableData"

\* C6's case: no Date column, two currency columns full of valid rates.
C6_Witness ==
    /\ HistoricalReturned /\ IsTable(historical_csv)
    /\ "Date" \notin historical_csv.columns
    /\ Len(historical_csv.rows) = 2
    /\ Cardinality(historical_csv.columns \cap TargetSet) = 2
    /\ \A c \in historical_csv.columns : \A i \in 1..2 :
          ParsesPositive(historical_csv.rows[i][c])
    /\ ErrorKind(raised) = "MalformedInput"

\* ======================================================================
\* calculate_mean_rates
\* ======================================================================

RECURSIVE GCD(_, _)
GCD(a, b) == IF b = 0 THEN a ELSE GCD(b, a % b)

Abs(n) == IF n < 0 THEN -n ELSE n

\* The float n / d, d > 0, as a fraction in lowest terms.
Frac(n, d) ==
    LET g == GCD(Abs(n), d)
    IN  [nan |-> FALSE, num |-> n \div g, den |-> d \div g]

\* The 'rate' values of the rows of group c that mean() counts: pandas' mean
\* skips NaN values.
GroupRates(rows, c) ==
    LET of_c == SelectSeq(rows, LAMBDA r : r.currency = c /\ ~r.rate.nan)
    IN  [k \in 1..Len(of_c) |-> of_c[k].rate]

\* The sum of a sequence of whole-number floats.
RECURSIVE SumRates(_)
SumRates(rates) ==
    IF rates = <<>> THEN 0 ELSE Head(rates).num + SumRates(Tail(rates))

\* The mean of group c taken over the rows of the whole frame.
GroupMean_DivideByAll(rows, c) ==
    LET rates == GroupRates(rows, c)
    IN  IF rates = <<>> THEN NaN ELSE Frac(SumRates(rates), Len(rows))

\* df.groupby('currency')['rate'].mean() for group c: sum over count, NaN for
\* a group without a number.
GroupMean(rows, c) ==
    LET rates == GroupRates(rows, c)
    IN  IF rates = <<>> THEN NaN ELSE Frac(SumRates(rates), Len(rates))

\* calculate_mean_rates with its validation inside the try block, so that its
\* ValueError comes out wrapped in a RuntimeError.
calculate_mean_rates_ValidateInTry(df) ==
    IF \/ Len(df.rows) = 0 \/ df.columns = {}
       \/ "currency" \notin df.columns \/ "rate" \notin df.columns
    THEN [raised |-> Raise("RuntimeError", "Error calculating mean rates"),
          value |-> EmptyDict]
    ELSE [raised |-> NoException,
          value |-> [c \in {df.rows[i].currency : i \in 1..Len(df.rows)} |->
                        GroupMean(df.rows, c)]]

calculate_mean_rates(df) ==
    IF Len(df.rows) = 0 \/ df.columns = {}
    THEN [raised |-> Raise("ValueError", "Cannot calculate means: DataFrame is empty"),
          value |-> EmptyDict]
    ELSE IF "currency" \notin df.columns \/ "rate" \notin df.columns
    THEN [raised |-> Raise("ValueError",
                  "DataFrame missing required columns: 'currency' and/or 'rate'"),
          value |-> EmptyDict]
    ELSE [raised |-> NoException,
          value |-> [c \in {df.rows[i].currency : i \in 1..Len(df.rows)} |->
                        GroupMean(df.rows, c)]]

\* The records a frame handed to calculate_mean_rates may hold.
Observations ==
    [date : {"2024-01-01"}, currency : {"USD", "SEK"},
     rate : {Num(1), Num(2), Num(3)}]

\* The frames handed to calculate_mean_rates: any of the three columns may
\* be missing, and there may be no record.
IsFrame(df) ==
    \E cols \in SUBSET {"date", "currency", "rate"} :
      \E n \in 0..MaxObs :
        \E rows \in [1..n -> Observations] :
          df = [columns |-> cols, rows |-> rows]

InitMean ==
    /\ fn = "calculate_mean_rates"
    /\ pc = "call"
    /\ IsFrame(historical_df)
    /\ daily_csv = MissingFile
    /\ historical_csv = MissingFile
    /\ disk = "ok"
    /\ daily_rates = EmptyDict
    /\ mean_rates = EmptyDict
    /\ html_content = <<>>
    /\ output_html = "absent"
    /\ raised = NoException
    /\ calls = <<>>
    /\ exit_code = -1

CallCalculateMean ==
    /\ fn = "calculate_mean_rates" /\ pc = "call"
    /\ LET r == calculate_mean_rates(historical_df)
       IN  /\ mean_rates' = r.value
           /\ raised' = r.raised
    /\ pc' = "return"
    /\ UNCHANGED <<fn, daily_csv, historical_csv, disk, daily_rates, historical_df,
                   html_content, output_html, calls, exit_code>>

NextMean == CallCalculateMean

SpecMean == InitMean /\ [][NextMean]_vars

\* ----------------------------------------------------------------------
\* Properties of calculate_mean_rates (specification SpecMean)
\* ----------------------------------------------------------------------

MeanReturned == fn = "calculate_mean_rates" /\ pc = "return"

\* The frame has a record and both identifying fields.
WellFormed(df) ==
    Len(df.rows) > 0 /\ "currency" \in df.columns /\ "rate" \in df.columns

\* The positions of the records of currency c.
Positions(df, c) == {i \in 1..Len(df.rows) : df.rows[i].currency = c}

\* The sum of the rates at the positions S.
RECURSIVE SumAt(_, _)
SumAt(df, S) ==
    IF S = {} THEN 0
    ELSE LET i == CHOOSE j \in S : TRUE
         IN  df.rows[i].rate.num + SumAt(df, S \ {i})

\* The frame with its records rearranged by the permutation p.
Permuted(df, p) == [df EXCEPT !.rows = [i \in 1..Len(df.rows) |-> df.rows[p[i]]]]

\* C4: for a non-empty observation sequence the keys of the mean map are
\* exactly the currencies with an observation, each value is the sum of that
\* currency's rates divided by their count, and rearranging the observations
\* changes nothing.
C4_MeanPerCurrency ==
    (MeanReturned /\ WellFormed(historical_df)) =>
        /\ raised = NoException
        /\ DOMAIN mean_rates =
              {historical_df.rows[i].currency : i \in 1..Len(historical_df.rows)}
        /\ \A c \in DOMAIN mean_rates :
              LET S == Positions(historical_df, c)
              IN  /\ ~mean_rates[c].nan
                  /\ mean_rates[c].den > 0
                  /\ mean_rates[c].num * Cardinality(S)
                        = SumAt(historical_df, S) * mean_rates[c].den
        /\ \A p \in Permutations(1..Len(historical_df.rows)) :
              calculate_mean_rates(Permuted(historical_df, p)).value = mean_rates

\* C4's case: two currencies interleaved, one of them with two different
\* rates whose mean is no whole number.
C4_Witness ==
    /\ MeanReturned /\ WellFormed(historical_df)
    /\ Len(historical_df.rows) = 3
    /\ historical_df.rows[1].currency = "USD"
    /\ historical_df.rows[2].currency = "SEK"
    /\ historical_df.rows[3].currency = "USD"
    /\ DOMAIN mean_rates = {"USD", "SEK"}
    /\ mean_rates["USD"] = [nan |-> FALSE, num |-> 3, den |-> 2]

\* C8: calculate_mean_rates fails with InvalidInput, returning no map, when
\* the frame has no record or lacks the currency or the rate field, and
\* succeeds on every other frame.
C8_MeanInputChecked ==
    MeanReturned =>
        IF WellFormed(historical_df)
        THEN raised = NoException
        ELSE ErrorKind(raised) = "InvalidInput" /\ mean_rates = EmptyDict

\* C8's case: records are there, but the frame has no rate field.
C8_Witness ==
    /\ MeanReturned
    /\ Len(historical_df.rows) > 0
    /\ historical_df.columns = {"date", "currency"}
    /\ ErrorKind(raised) = "InvalidInput"

\* ======================================================================
\* create_html_table
\* ======================================================================

\* A float as a condition: `if daily_rate`. None and 0.0 are false, every
\* other float, NaN too, is true.
Truthy(x) == x.nan \/ x.num # 0

\* n / d rounded to the nearest whole number, a tie to the even one.
RoundHalfEven(n, d) ==
    LET q == n \div d
        r == n - q * d
    IN  IF 2 * r < d THEN q
        ELSE IF 2 * r > d THEN q + 1
        ELSE IF q % 2 = 0 THEN q ELSE q + 1

\* The "N/A" marker of the table.
NA == [text |-> "N/A", units |-> 0]

\* f"{x:.4f}": the decimal text with four places, held as a count of
\* ten-thousandths; "nan" for NaN.
Format4(x) ==
    IF x.nan THEN [text |-> "nan", units |-> 0]
    ELSE [text |-> "fixed4", units |-> RoundHalfEven(x.num * 10000, x.den)]

\* One rate cell of the table: rates.get(currency), then the conditional
\* expression of lines 292-293.
RateCell(rates, currency) ==
    IF currency \in DOMAIN rates /\ Truthy(rates[currency])
    THEN Format4(rates[currency])
    ELSE NA

\* table_data, one row for each target currency in configured order.
create_html_table(daily, means) ==
    [i \in 1..Len(TARGET_CURRENCIES) |->
        [code |-> TARGET_CURRENCIES[i],
         rate |-> RateCell(daily, TARGET_CURRENCIES[i]),
         mean |-> RateCell(means, TARGET_CURRENCIES[i])]]

\* The rates a map handed to create_html_table may hold.
DailyValues == {Num(-1), Num(0), Num(2), NaN}

MeanValues == {Num(1), Frac(3, 2), Frac(2, 3)}

\* d is a map from some of the target currencies to the values V.
IsDict(d, V) == \E K \in SUBSET TargetSet : \E f \in [K -> V] : d = f

InitHtml ==
    /\ fn = "create_html_table"
    /\ pc = "call"
    /\ IsDict(daily_rates, DailyValues)
    /\ IsDict(mean_rates, MeanValues)
    /\ daily_csv = MissingFile
    /\ historical_csv = MissingFile
    /\ disk = "ok"
    /\ historical_df = EmptyFrame
    /\ html_content = <<>>
    /\ output_html = "absent"
    /\ raised = NoException
    /\ calls = <<>>
    /\ exit_code = -1

CallCreateHtml ==
    /\ fn = "create_html_table" /\ pc = "call"
    /\ html_content' = create_html_table(daily_rates, mean_rates)
    /\ pc' = "return"
    /\ UNCHANGED <<fn, daily_csv, historical_csv, disk, daily_rates, historical_df,
                   mean_rates, output_html, raised, calls, exit_code>>

NextHtml == CallCreateHtml

SpecHtml == InitHtml /\ [][NextHtml]_vars

\* ----------------------------------------------------------------------
\* Properties of create_html_table (specification SpecHtml)
\* ----------------------------------------------------------------------

\* C7 (as stated): in each of the two rate columns the cell of a target
\* currency is "N/A" exactly when the currency is absent from the map, and
\* is the value formatted to four decimal places when it is present.
C7_NAOnlyWhenAbsent ==
    (fn = "create_html_table" /\ pc = "return") =>
        \A i \in 1..Len(TARGET_CURRENCIES) :
            LET c == TARGET_CURRENCIES[i]
                row == html_content[i]
            IN  /\ row.code = c
                /\ row.rate = NA <=> c \notin DOMAIN daily_rates
                /\ row.mean = NA <=> c \notin DOMAIN mean_rates
                /\ c \in DOMAIN daily_rates => row.rate = Format4(daily_rates[c])
                /\ c \in DOMAIN mean_rates => row.mean = Format4(mean_rates[c])

\* ======================================================================
\* save_html_report and main
\* ======================================================================

\* What writing the report may meet: nothing, a PermissionError when the file
\* is opened, an OSError while it is written, any other exception.
DiskStates == {"ok", "PermissionError", "OSError", "Exception"}

\* save_html_report: the exception raised and the state the file is left in.
save_html_report(content, d) ==
    IF content = <<>>
    THEN [raised |-> Raise("ValueError", "Cannot save empty HTML content"),
          file |-> "absent"]
    ELSE IF d = "PermissionError"
    THEN [raised |-> Raise("PermissionError", "Permission denied"), file |-> "absent"]
    ELSE IF d = "OSError"
    THEN [raised |-> Raise("OSError", "I/O error saving HTML report"),
          file |-> "partial"]
    ELSE IF d = "Exception"
    THEN [raised |-> Raise("RuntimeError", "Unexpected error saving HTML report"),
          file |-> "absent"]
    ELSE [raised |-> NoException, file |-> "written"]

\* The cells of the files main is run on.
MainCells == {Null, Str("abc"), Str("2"), Flt(0), Flt(1)}

\* The currency columns of the files main is run on.
MainHeaders == {{}, {"USD"}, {"USD", "SEK"}}

\* csv_file is one of the files main may find in its directory, of at most
\* maxRows data rows.
IsMainFile(csv_file, maxRows) ==
    \/ csv_file \in UnreadableFiles
    \/ \E h \in MainHeaders, hasDate \in BOOLEAN :
         \E n \in 0..(IF Cardinality(h) > 1 THEN 1 ELSE maxRows) :
           \E cells \in [1..n -> [h -> MainCells]] :
             csv_file = Table(h, hasDate, n, cells,
                              [i \in 1..n |-> Str("2024-01-01")])

InitMain ==
    /\ fn = "main"
    /\ pc = "check_files"
    /\ IsMainFile(daily_csv, 1)
    /\ IsMainFile(historical_csv, MaxRows)
    /\ disk \in DiskStates
    /\ daily_rates = EmptyDict
    /\ historical_df = EmptyFrame
    /\ mean_rates = EmptyDict
    /\ html_content = <<>>
    /\ output_html = "absent"
    /\ raised = NoException
    /\ calls = <<>>
    /\ exit_code = -1

\* Lines 425-430 without the test of the historical file.
MainCheckFiles_DailyOnly ==
    /\ fn = "main" /\ pc = "check_files"
    /\ calls' = Append(calls, "check_files")
    /\ IF ~daily_csv.exists
       THEN /\ raised' = Raise("FileNotFoundError", "Required input files not found")
            /\ pc' = "except"
       ELSE /\ raised' = raised
            /\ pc' = "parse_daily_rates"
    /\ UNCHANGED <<fn, daily_csv, historical_csv, disk, daily_rates, historical_df,
                   mean_rates, html_content, output_html, exit_code>>

\* Lines 425-435: both input files must exist.
MainCheckFiles ==
    /\ fn = "main" /\ pc = "check_files"
    /\ calls' = Append(calls, "check_files")
    /\ IF ~daily_csv.exists \/ ~historical_csv.exists
       THEN /\ raised' = Raise("FileNotFoundError", "Required input files not found")
            /\ pc' = "except"
       ELSE /\ raised' = raised
            /\ pc' = "parse_daily_rates"
    /\ UNCHANGED <<fn, daily_csv, historical_csv, disk, daily_rates, historical_df,
                   mean_rates, html_content, output_html, exit_code>>

\* Line 438.
MainParseDaily ==
    /\ fn = "main" /\ pc = "parse_daily_rates"
    /\ calls' = Append(calls, "parse_daily_rates")
    /\ LET r == parse_daily_rates(daily_csv)
       IN  /\ raised' = r.raised
           /\ daily_rates' = r.value
           /\ pc' = IF r.raised = NoException THEN "parse_historical_rates"
                     ELSE "except"
    /\ UNCHANGED <<fn, daily_csv, historical_csv, disk, historical_df, mean_rates,
                   html_content, output_html, exit_code>>

\* Line 441.
MainParseHistorical ==
    /\ fn = "main" /\ pc = "parse_historical_rates"
    /\ calls' = Append(calls, "parse_historical_rates")
    /\ LET r == parse_historical_rates(historical_csv)
       IN  /\ raised' = r.raised
           /\ historical_df' = r.value
           /\ pc' = IF r.raised = NoException THEN "calculate_mean_rates"
                     ELSE "except"
    /\ UNCHANGED <<fn, daily_csv, historical_csv, disk, daily_rates, mean_rates,
                   html_content, output_html, exit_code>>

\* Line 444.
MainCalculateMean ==
    /\ fn = "main" /\ pc = "calculate_mean_rates"
    /\ calls' = Append(calls, "calculate_mean_rates")
    /\ LET r == calculate_mean_rates(historical_df)
       IN  /\ raised' = r.raised
           /\ mean_rates' = r.value
           /\ pc' = IF r.raised = NoException THEN "create_html_table"
                     ELSE "except"
    /\ UNCHANGED <<fn, daily_csv, historical_csv, disk, daily_rates, historical_df,
                   html_content, output_html, exit_code>>

\* Lines 446-457: the check that some data was found, then the table.
MainCreateHtml ==
    /\ fn = "main" /\ pc = "create_html_table"
    /\ IF DOMAIN daily_rates = {} /\ DOMAIN mean_rates = {}
       THEN /\ raised' = Raise("ValueError",
                   "No exchange rate data found in either daily or historical files")
            /\ pc' = "except"
            /\ UNCHANGED <<calls, html_content>>
       ELSE /\ calls' = Append(calls, "create_html_table")
            /\ html_content' = create_html_table(daily_rates, mean_rates)
            /\ raised' = raised
            /\ pc' = "save_html_report"
    /\ UNCHANGED <<fn, daily_csv, historical_csv, disk, daily_rates, historical_df,
                   mean_rates, output_html, exit_code>>

\* Lines 460-466 with a failure of save_html_report taken for success.
MainSaveReport_IgnoreFailure ==
    /\ fn = "main" /\ pc = "save_html_report"
    /\ calls' = Append(calls, "save_html_report")
    /\ LET r == save_html_report(html_content, disk)
       IN  /\ raised' = r.raised
           /\ output_html' = r.file
           /\ pc' = "exit"
           /\ exit_code' = 0
    /\ UNCHANGED <<fn, daily_csv, historical_csv, disk, daily_rates, historical_df,
                   mean_rates, html_content>>

\* Lines 460-466: the report is saved and main returns 0.
MainSaveReport ==
    /\ fn = "main" /\ pc = "save_html_report"
    /\ calls' = Append(calls, "save_html_report")
    /\ LET r == save_html_report(html_content, disk)
       IN  /\ raised' = r.raised
           /\ output_html' = r.file
           /\ IF r.raised = NoException
              THEN pc' = "exit" /\ exit_code' = 0
              ELSE pc' = "except" /\ exit_code' = exit_code
    /\ UNCHANGED <<fn, daily_csv, historical_csv, disk, daily_rates, historical_df,
                   mean_rates, html_content>>

\* Lines 468-472: every Exception is caught and main returns 1.
MainExcept ==
    /\ fn = "main" /\ pc = "except"
    /\ exit_code' = 1
    /\ pc' = "exit"
    /\ UNCHANGED <<fn, daily_csv, historical_csv, disk, daily_rates, historical_df,
                   mean_rates, html_content, output_html, raised, calls>>

NextMain ==
    \/ MainCheckFiles
    \/ MainParseDaily
    \/ MainParseHistorical
    \/ MainCalculateMean
    \/ MainCreateHtml
    \/ MainSaveReport
    \/ MainExcept

SpecMain == InitMain /\ [][NextMain]_vars

\* ----------------------------------------------------------------------
\* Properties of main (specification SpecMain)
\* ----------------------------------------------------------------------

\* The steps of main in the order of the source.
Steps ==
    <<"check_files", "parse_daily_rates", "parse_historical_rates",
      "calculate_mean_rates", "create_html_table", "save_html_report">>

IsPrefix(a, b) == Len(a) <= Len(b) /\ a = SubSeq(b, 1, Len(a))

\* Every step would succeed on the inputs of this run.
AllStepsSucceed ==
    /\ daily_csv.exists /\ historical_csv.exists
    /\ parse_daily_rates(daily_csv).raised = NoException
    /\ parse_historical_rates(historical_csv).raised = NoException
    /\ calculate_mean_rates(parse_historical_rates(historical_csv).value).raised
         = NoException
    /\ disk = "ok"

\* C9: main ends with exit code 0 or 1; 0 exactly when the file check and the
\* five calls all succeeded, 1 when one of them raised; until it has ended
\* there is a next step to take, and it takes at most one step per call and
\* one for the handler.
C9_ExitCode ==
    /\ pc # "exit" => (exit_code = -1 /\ ENABLED NextMain)
    /\ Len(calls) <= Len(Steps)
    /\ pc = "exit" =>
          /\ exit_code \in {0, 1}
          /\ exit_code = 0 <=> (calls = Steps /\ raised = NoException)
          /\ exit_code = 0 <=> AllStepsSucceed
          /\ exit_code = 1 <=> raised # NoException

\* C9's case: every step up to the save succeeded, the save raised, and main
\* returned 1.
C9_Witness ==
    /\ pc = "exit" /\ exit_code = 1
    /\ calls = Steps
    /\ raised.type = "PermissionError"

\* C10: the steps run in the fixed order, each only after all the earlier
\* ones succeeded; once a step has failed no later step runs, and unless
\* every step before the save succeeded the report file is not touched. A
\* missing historical file keeps parse_daily_rates from running; a daily
\* NoUsableData failure keeps parse_historical_rates from running.
C10_StepOrder ==
    /\ IsPrefix(calls, Steps)
    /\ pc \notin {"except", "exit"} =>
          (raised = NoException /\ pc = Steps[Len(calls) + 1])
    /\ raised # NoException => pc \in {"except", "exit"}
    /\ output_html # "absent" => calls = Steps
    /\ (pc = "exit" /\ ~historical_csv.exists) => calls = <<"check_files">>
    /\ (pc = "exit" /\ ErrorKind(parse_daily_rates(daily_csv).raised) = "NoUsableData"
        /\ historical_csv.exists) =>
          calls = <<"check_files", "parse_daily_rates">>

\* C10's case: the daily file has a row but no usable rate, the historical
\* file is fine, and main stopped after parse_daily_rates.
C10_Witness ==
    /\ pc = "exit" /\ exit_code = 1
    /\ ErrorKind(raised) = "NoUsableData"
    /\ calls = <<"check_files", "parse_daily_rates">>
    /\ parse_historical_rates(historical_csv).raised = NoException
    /\ output_html = "absent"

====
